---------------------------- MODULE Spec2Model ----------------------------
(***************************************************************************)
(* The pipeline notebook (pipeline.ipynb): TextObject records, the two     *)
(* processors LanguageDetector and SentimentDetector, and Pipeline.run.    *)
(*                                                                         *)
(* An optional field (Python None or a value) is a sequence of length at   *)
(* most one: <<>> is None and <<v>> is the value v.  Polarity scores are   *)
(* written in hundredths (75 is 0.75).  The two external collaborators     *)
(* (langdetect.detect_langs, textblob's polarity) are opaque: what each    *)
(* returns for a text, or that it raises, is chosen when the text is first *)
(* submitted and is the same for every later call on that text.            *)
(***************************************************************************)
EXTENDS Integers, Sequences, FiniteSets

\* ---------------------------------------------------------------- bounds
MaxRecords == 2
MaxProcs == 2
MaxRuns == 2

\* ---------------------------------------------------------------- values
None == <<>>
Some(v) == <<v>>

EmptyText == ""
Texts == {EmptyText, "a text"}

LD == "LanguageDetector"
SD == "SentimentDetector"
ProcessorClasses == {LD, SD}

\* The module-level name `processors` before the cell that binds it has run.
Undefined == <<"NameError">>

RECURSIVE SeqsUpTo(_, _)
SeqsUpTo(S, n) ==
    IF n = 0 THEN {<<>>}
    ELSE LET shorter == SeqsUpTo(S, n - 1)
         IN  shorter \cup {Append(s, x) : s \in shorter, x \in S}

\* TextObject(text): language and sentiment default to None.
TextObject(text) == [text |-> text, language |-> None, sentiment |-> None]

\* ---------------------------------------------------------- collaborators
\* langdetect.detect_langs(text): a list of candidates (lang, prob), possibly
\* empty, or an exception.
Candidate(lang, prob) == [lang |-> lang, prob |-> prob]
DetectedLists ==
    { <<>>,
      <<Candidate("de", 1), Candidate("en", 2)>>,
      <<Candidate("de", 2), Candidate("en", 2)>> }
NotCalled == [known |-> FALSE, raised |-> FALSE, langs |-> <<>>, score |-> 0]
DetectOutcomes ==
    {[known |-> TRUE, raised |-> FALSE, langs |-> l, score |-> 0] : l \in DetectedLists}
    \cup {[known |-> TRUE, raised |-> TRUE, langs |-> <<>>, score |-> 0]}
\* textblob.TextBlob(text).sentiment.polarity: a score, or an exception.
PolarityOutcomes ==
    {[known |-> TRUE, raised |-> FALSE, langs |-> <<>>, score |-> s] : s \in {0, 75}}
    \cup {[known |-> TRUE, raised |-> TRUE, langs |-> <<>>, score |-> 0]}

\* The outcomes a call on a text can have, given what the collaborator
\* answered for that text before.
Answers(memo, outcomes) == IF memo.known THEN {memo} ELSE outcomes

VARIABLES
    processors,   \* the module-level name `processors` (Undefined or a list)
    pipeline,     \* the Pipeline instance: [processors |-> list]
    texts,        \* the list of TextObject records handed to run
    detect_langs, \* langdetect's answer per text, once asked
    polarity,     \* textblob's answer per text, once asked
    pc,           \* "idle", "running", "done" (run returned), "raised"
    k,            \* position of run in its nested loops
    exc,          \* the exception that left run, or "none"
    runs,         \* number of run calls started
    callLog,      \* the process calls of the current run, in order
    startTexts,   \* the records as they were when the current run started
    firstEnd,     \* the records as they were when the first run ended
    wpos,         \* per record: next processor (record-parallel execution)
    wstate,       \* per record: "ready" or "failed" (record-parallel execution)
    overtaken     \* a record was processed before an earlier one was finished

vars == <<processors, pipeline, texts, detect_langs, polarity, pc, k, exc, runs,
          callLog, startTexts, firstEnd, wpos, wstate, overtaken>>

\* ------------------------------------------------------------- processors
\* sorted(candidates, key=lambda x: x.prob, reverse=True): a stable sort, so
\* candidates of equal prob keep their order.
RECURSIVE InsertDesc(_, _)
InsertDesc(x, s) ==
    IF s = <<>> THEN <<x>>
    ELSE IF Head(s).prob >= x.prob THEN <<Head(s)>> \o InsertDesc(x, Tail(s))
    ELSE <<x>> \o s

RECURSIVE sorted(_)
sorted(s) ==
    IF s = <<>> THEN <<>>
    ELSE InsertDesc(s[Len(s)], sorted(SubSeq(s, 1, Len(s) - 1)))

Returned(obj, called) == [raised |-> FALSE, obj |-> obj, called |-> called]
Raised(obj, called) == [raised |-> TRUE, obj |-> obj, called |-> called]

\* A mutated LanguageDetector.process that rebuilds the record from its text
\* and the detected language, dropping the sentiment.
LanguageDetector_process_rebuild(text_object, detected) ==
    IF detected.raised THEN Raised(text_object, TRUE)
    ELSE IF Len(detected.langs) > 0
    THEN Returned([TextObject(text_object.text) EXCEPT
                     !.language = Some(sorted(detected.langs)[1].lang)], TRUE)
    ELSE Returned(text_object, TRUE)

\* LanguageDetector.process(text_object), detected being what
\* langdetect.detect_langs(text_object.text) does.
LanguageDetector_process(text_object, detected) ==
    IF detected.raised THEN Raised(text_object, TRUE)
    ELSE IF Len(detected.langs) > 0
    THEN Returned([text_object EXCEPT
                     !.language = Some(sorted(detected.langs)[1].lang)], TRUE)
    ELSE Returned(text_object, TRUE)

\* Whether SentimentDetector.process calls the sentiment collaborator.
SentimentDetector_guard_inverted(text_object) == text_object.language # Some("en")

SentimentDetector_guard_dropped(text_object) == TRUE

SentimentDetector_guard_first(text_object) ==
    Len(texts) > 0 /\ texts[1].language = Some("en")

SentimentDetector_guard(text_object) == text_object.language = Some("en")

\* A mutated write that adds the score to a sentiment already present.
SentimentDetector_write_add(text_object, score) ==
    IF text_object.sentiment = None
    THEN [text_object EXCEPT !.sentiment = Some(score)]
    ELSE [text_object EXCEPT !.sentiment = Some(text_object.sentiment[1] + score)]

SentimentDetector_write(text_object, score) ==
    [text_object EXCEPT !.sentiment = Some(score)]

\* SentimentDetector.process(text_object), scored being what
\* textblob.TextBlob(text_object.text).sentiment.polarity does if it is called.
SentimentDetector_process(text_object, scored) ==
    IF SentimentDetector_guard(text_object)
    THEN IF scored.raised THEN Raised(text_object, TRUE)
         ELSE Returned(SentimentDetector_write(text_object, scored.score), TRUE)
    ELSE Returned(text_object, FALSE)

\* --------------------------------------------------------------- Pipeline
\* The nested loops of run visit (record, processor) pairs in this order.
Iterations_processor_major(nTexts, nProcs) ==
    [n \in 1..(nTexts * nProcs) |->
        <<((n - 1) % nTexts) + 1, ((n - 1) \div nTexts) + 1>>]

Iterations(nTexts, nProcs) ==
    [n \in 1..(nTexts * nProcs) |->
        <<((n - 1) \div nProcs) + 1, ((n - 1) % nProcs) + 1>>]

\* run has no try/except: an exception of a process call leaves run.
Swallowed(e) == [pc |-> "running", exc |-> "none"]

Unhandled(e) == [pc |-> "raised", exc |-> e]

\* The list run iterates: the body of run names `processors`, which Python
\* resolves to the module-level name, not to self.processors.
RunProcessors == processors

Visits == IF RunProcessors = Undefined THEN <<>>
          ELSE Iterations(Len(texts), Len(RunProcessors))

ProcLists == SeqsUpTo(ProcessorClasses, MaxProcs)
RecordLists == {[n \in DOMAIN ts |-> TextObject(ts[n])] : ts \in SeqsUpTo(Texts, MaxRecords)}

Init ==
    /\ processors \in {Undefined} \cup ProcLists
    /\ pipeline \in [processors : ProcLists]
    /\ texts \in RecordLists
    /\ detect_langs = [t \in Texts |-> NotCalled]
    /\ polarity = [t \in Texts |-> NotCalled]
    /\ pc = "idle"
    /\ k = 1
    /\ exc = "none"
    /\ runs = 0
    /\ callLog = <<>>
    /\ startTexts = texts
    /\ firstEnd = texts
    /\ wpos = [n \in DOMAIN texts |-> 1]
    /\ wstate = [n \in DOMAIN texts |-> "ready"]
    /\ overtaken = FALSE

parVars == <<wpos, wstate, overtaken>>

\* pipeline.run(texts) is called.
StartRun ==
    /\ pc \in {"idle", "done", "raised"}
    /\ runs < MaxRuns
    /\ pc' = "running"
    /\ k' = 1
    /\ exc' = "none"
    /\ runs' = runs + 1
    /\ callLog' = <<>>
    /\ startTexts' = texts
    /\ UNCHANGED <<processors, pipeline, texts, detect_langs, polarity, firstEnd, parVars>>

EndRun(newTexts) == firstEnd' = IF runs = 1 THEN newTexts ELSE firstEnd

\* `for processor in processors` with the module-level name unbound.
RunNameError ==
    /\ pc = "running"
    /\ Len(texts) > 0
    /\ RunProcessors = Undefined
    /\ pc' = "raised"
    /\ exc' = "NameError"
    /\ EndRun(texts)
    /\ UNCHANGED <<processors, pipeline, texts, detect_langs, polarity, k, runs,
                   callLog, startTexts, parVars>>

\* One process call of run, with its result res and the log entry.
Step(i, j, res) ==
    LET h == IF res.raised THEN Unhandled("collaborator") ELSE [pc |-> "running", exc |-> exc]
    IN  /\ texts' = [texts EXCEPT ![i] = res.obj]
        /\ callLog' = Append(callLog, [rec |-> i, proc |-> j, class |-> RunProcessors[j],
                                       called |-> res.called, raised |-> res.raised])
        /\ pc' = h.pc
        /\ exc' = h.exc
        /\ k' = IF h.pc = "running" THEN k + 1 ELSE k
        /\ IF h.pc = "raised" THEN EndRun(texts') ELSE firstEnd' = firstEnd
        /\ UNCHANGED <<processors, pipeline, runs, startTexts, parVars>>

RunLanguageDetector ==
    /\ pc = "running"
    /\ k <= Len(Visits)
    /\ LET i == Visits[k][1]
           j == Visits[k][2]
       IN  /\ RunProcessors[j] = LD
           /\ \E detected \in Answers(detect_langs[texts[i].text], DetectOutcomes) :
                 /\ detect_langs' = [detect_langs EXCEPT ![texts[i].text] = detected]
                 /\ Step(i, j, LanguageDetector_process(texts[i], detected))
           /\ UNCHANGED polarity

RunSentimentDetector ==
    /\ pc = "running"
    /\ k <= Len(Visits)
    /\ LET i == Visits[k][1]
           j == Visits[k][2]
       IN  /\ RunProcessors[j] = SD
           /\ \E scored \in Answers(polarity[texts[i].text], PolarityOutcomes) :
                 LET res == SentimentDetector_process(texts[i], scored)
                 IN  /\ polarity' = IF res.called
                                    THEN [polarity EXCEPT ![texts[i].text] = scored]
                                    ELSE polarity
                     /\ Step(i, j, res)
           /\ UNCHANGED detect_langs

\* The loops are exhausted: run returns.
RunReturn ==
    /\ pc = "running"
    /\ Len(texts) = 0 \/ (RunProcessors # Undefined /\ k > Len(Visits))
    /\ pc' = "done"
    /\ EndRun(texts)
    /\ UNCHANGED <<processors, pipeline, texts, detect_langs, polarity, k, exc, runs,
                   callLog, startTexts, parVars>>

Next ==
    \/ StartRun
    \/ RunNameError
    \/ RunLanguageDetector
    \/ RunSentimentDetector
    \/ RunReturn

Spec == Init /\ [][Next]_vars

\* ------------------------------------------------ record-level parallelism
\* The extension the notebook calls "easily parallelizable": one worker per
\* record applies the processors to its record in order, workers interleave
\* freely, and a worker stops at the first exception of its own record.
InitPar ==
    /\ Init
    /\ processors # Undefined
    /\ pipeline.processors = processors

seqVars == <<pc, k, exc, runs, callLog, startTexts, firstEnd>>

ParFinished(i) == wstate[i] = "failed" \/ wpos[i] > Len(RunProcessors)

ParStep(i, res) ==
    /\ texts' = [texts EXCEPT ![i] = res.obj]
    /\ wpos' = [wpos EXCEPT ![i] = IF res.raised THEN @ ELSE @ + 1]
    /\ wstate' = [wstate EXCEPT ![i] = IF res.raised THEN "failed" ELSE @]
    /\ overtaken' = (overtaken \/ \E m \in 1..(i - 1) : ~ParFinished(m))
    /\ UNCHANGED <<processors, pipeline, seqVars>>

ParLanguageDetector(i) ==
    /\ ~ParFinished(i)
    /\ RunProcessors[wpos[i]] = LD
    /\ \E detected \in Answers(detect_langs[texts[i].text], DetectOutcomes) :
          /\ detect_langs' = [detect_langs EXCEPT ![texts[i].text] = detected]
          /\ ParStep(i, LanguageDetector_process(texts[i], detected))
    /\ UNCHANGED polarity

ParSentimentDetector(i) ==
    /\ ~ParFinished(i)
    /\ RunProcessors[wpos[i]] = SD
    /\ \E scored \in Answers(polarity[texts[i].text], PolarityOutcomes) :
          LET res == SentimentDetector_process(texts[i], scored)
          IN  /\ polarity' = IF res.called
                             THEN [polarity EXCEPT ![texts[i].text] = scored]
                             ELSE polarity
              /\ ParStep(i, res)
    /\ UNCHANGED detect_langs

NextPar ==
    \/ \E i \in DOMAIN texts : ParLanguageDetector(i)
    \/ \E i \in DOMAIN texts : ParSentimentDetector(i)

SpecPar == InitPar /\ [][NextPar]_vars

ParDone == \A i \in DOMAIN texts : ParFinished(i)

\* Pipeline.run as a function of the records, with the collaborators' answers
\* as given: the records it leaves and the record whose process call raised
\* (0 when run returns).
RECURSIVE RunFrom(_, _, _)
RunFrom(ts, visits, n) ==
    IF n > Len(visits) THEN [texts |-> ts, failedAt |-> 0]
    ELSE LET i == visits[n][1]
             j == visits[n][2]
             res == IF RunProcessors[j] = LD
                    THEN LanguageDetector_process(ts[i], detect_langs[ts[i].text])
                    ELSE SentimentDetector_process(ts[i], polarity[ts[i].text])
             after == [ts EXCEPT ![i] = res.obj]
         IN  IF res.raised
             THEN [texts |-> after, failedAt |-> i]
             ELSE RunFrom(after, visits, n + 1)

SequentialRun(ts) == RunFrom(ts, Iterations(Len(ts), Len(RunProcessors)), 1)

\* ------------------------------------------------------------ the claims
\* The classes of the processors applied to record i in the current run, in
\* the order of the calls.
AppliedTo(i) ==
    LET calls == SelectSeq(callLog, LAMBDA e : e.rec = i)
    IN  [n \in 1..Len(calls) |-> calls[n].class]

SameList(a, b) == Len(a) = Len(b) /\ \A n \in 1..Len(a) : a[n] = b[n]

\* A LanguageDetector stands somewhere before a SentimentDetector in ps.
LanguageBeforeSentiment(ps) ==
    \E a, b \in 1..Len(ps) : a < b /\ ps[a] = LD /\ ps[b] = SD

Holds(ps, class) == \E n \in 1..Len(ps) : ps[n] = class

NoEmptyText == \A i \in DOMAIN texts : texts[i].text # EmptyText

\* C1: when run returns, every record has been given exactly the processors
\* of the list the Pipeline instance was constructed with (self.processors),
\* each once and in that list's order, whatever other lists exist.
C1_RunAppliesOwnProcessors ==
    pc = "done" => \A i \in DOMAIN texts : SameList(AppliedTo(i), pipeline.processors)

\* C2 as stated: after run returns, for a pipeline holding LanguageDetector
\* and SentimentDetector in whichever order, every record whose language is
\* "en" has the polarity of its text as sentiment.  (Stated for the pipeline
\* built from the module-level list, as the notebook builds it, and for
\* records whose text is not empty.)
C2_AnyOrder ==
    (/\ pc = "done"
     /\ NoEmptyText
     /\ pipeline.processors = processors
     /\ Holds(pipeline.processors, LD)
     /\ Holds(pipeline.processors, SD))
    => \A i \in DOMAIN texts :
          texts[i].language = Some("en")
          => /\ polarity[texts[i].text].known
             /\ ~polarity[texts[i].text].raised
             /\ texts[i].sentiment = Some(polarity[texts[i].text].score)

\* C2 amended: after run returns, when the list run iterates places a
\* LanguageDetector before a SentimentDetector, every record whose language
\* is "en" has the polarity of its text as sentiment.
C2_LanguageFirst ==
    (/\ pc = "done"
     /\ processors # Undefined
     /\ LanguageBeforeSentiment(processors))
    => \A i \in DOMAIN texts :
          texts[i].language = Some("en")
          => /\ polarity[texts[i].text].known
             /\ ~polarity[texts[i].text].raised
             /\ texts[i].sentiment = Some(polarity[texts[i].text].score)

C2_Witness ==
    /\ pc = "done"
    /\ processors = <<LD, SD>>
    /\ \E i \in DOMAIN texts :
          texts[i].language = Some("en") /\ texts[i].sentiment = Some(75)

\* C3: a record whose language is not "en" (unset included) has no sentiment,
\* and SentimentDetector.process has made no sentiment-collaborator call for
\* it in the run.
C3_NoSentimentUnlessEnglish ==
    \A i \in DOMAIN texts :
        texts[i].language # Some("en")
        => /\ texts[i].sentiment = None
           /\ \A n \in DOMAIN callLog :
                 (callLog[n].rec = i /\ callLog[n].class = SD) => ~callLog[n].called

C3_Witness ==
    /\ pc = "done"
    /\ \E i \in DOMAIN texts :
          /\ texts[i].language = Some("de")
          /\ texts[i].sentiment = None
          /\ \E a, b \in DOMAIN callLog :
                /\ a < b
                /\ callLog[a].rec = i /\ callLog[a].class = LD
                /\ callLog[b].rec = i /\ callLog[b].class = SD

\* C4 as stated: for every pipeline built from LanguageDetector and
\* SentimentDetector, the records after a second run equal the records after
\* the first.  (Stated for the pipeline built from the module-level list and
\* for records whose text is not empty.)
C4_Idempotent ==
    (/\ runs >= 2
     /\ NoEmptyText
     /\ pc = "done"
     /\ pipeline.processors = processors)
    => texts = firstEnd

\* C4 amended: the records after a second run (returned or aborted) equal the
\* records after the first, unless the list run iterates holds both classes
\* with no LanguageDetector before a SentimentDetector.
C4_IdempotentOrdered ==
    (/\ runs >= 2
     /\ pc \in {"done", "raised"}
     /\ processors # Undefined
     /\ \/ LanguageBeforeSentiment(processors)
        \/ ~Holds(processors, LD)
        \/ ~Holds(processors, SD))
    => texts = firstEnd

C4_Witness ==
    /\ runs = 2
    /\ pc = "done"
    /\ processors = <<LD, SD>>
    /\ \E i \in DOMAIN texts : texts[i].sentiment = Some(75)

\* C5: a Pipeline constructed with an empty processor list leaves every
\* record unchanged and makes no collaborator call.
C5_EmptyPipelineNoEffect ==
    (pipeline.processors = <<>> /\ pc = "done")
    => /\ texts = startTexts
       /\ \A n \in DOMAIN callLog : ~callLog[n].called

\* C6: language and sentiment start unset, and no step takes a set language
\* or a set sentiment back to unset.
C6_FieldsOnlyFilled ==
    /\ \A i \in DOMAIN texts : texts[i].language = None /\ texts[i].sentiment = None
    /\ [][\A i \in DOMAIN texts :
            /\ texts[i].language # None => texts'[i].language # None
            /\ texts[i].sentiment # None => texts'[i].sentiment # None]_vars

C6_Witness ==
    /\ runs = 2
    /\ \E n \in DOMAIN callLog :
          /\ callLog[n].class = LD
          /\ startTexts[callLog[n].rec].language # None
          /\ startTexts[callLog[n].rec].sentiment # None
          /\ texts[callLog[n].rec].sentiment # None

\* C7: a process call that raises is the last call of its run: run is left
\* with the exception, and the records after the failing one are as they were
\* when the run started.
C7_AbortOnFirstError ==
    /\ \A n \in DOMAIN callLog :
          callLog[n].raised => n = Len(callLog) /\ pc = "raised" /\ exc = "collaborator"
    /\ (pc = "raised" /\ exc = "collaborator")
       => /\ callLog # <<>>
          /\ callLog[Len(callLog)].raised
          /\ \A m \in DOMAIN texts :
                m > callLog[Len(callLog)].rec => texts[m] = startTexts[m]

C7_Witness ==
    /\ pc = "raised"
    /\ exc = "collaborator"
    /\ Len(texts) >= 2
    /\ Len(callLog) >= 2
    /\ callLog[Len(callLog)].rec = 1

\* C8: a process call on a record whose text is empty returns normally.
C8_EmptyTextNeverFails ==
    \A n \in DOMAIN callLog :
        texts[callLog[n].rec].text = EmptyText => ~callLog[n].raised

\* C9: the process calls of a run are in record-major order (all calls on a
\* record before any call on the next, processors in list order within a
\* record), and a run that returns has made every call: no record is dropped.
C9_RecordMajorOrder ==
    /\ \A a, b \in DOMAIN callLog :
          a < b => \/ callLog[a].rec < callLog[b].rec
                   \/ callLog[a].rec = callLog[b].rec /\ callLog[a].proc < callLog[b].proc
    /\ \A n \in DOMAIN callLog :
          callLog[n].rec \in DOMAIN texts /\ callLog[n].proc \in DOMAIN processors
    /\ (pc = "done" /\ processors # Undefined)
       => Len(callLog) = Len(texts) * Len(processors)

C9_Witness ==
    /\ pc = "done"
    /\ Len(texts) >= 2
    /\ Len(callLog) >= 4

=============================================================================
